---- MODULE Spec2Model ----
(***************************************************************************)
(* State-machine model of integrations-svc-ms2: the Sync job state machine *)
(* (routers/syncs.py, services/sync/worker.py), the message mirror         *)
(* (models/message.py) and the OAuth callback (routers/oauth.py).          *)
(*                                                                         *)
(* Database rows are records; a table is a function from row ids to rows,  *)
(* with NoRow for an id that holds no row.  Every request handler and     *)
(* every background task is a process with its own session: what it read  *)
(* is kept in its own variables, and it writes the table on commit.       *)
(***************************************************************************)
EXTENDS Integers, Sequences, FiniteSets, TLC

\* ---------------------------------------------------------------- bounds

\* Number of POST /syncs requests; each owns one background task slot.
NumRequests == 2
\* Number of messages in the remote mailbox.
NumRemote == 2
\* Number of DELETE /syncs/{id} requests.
NumDeletes == 2
\* Number of POST /syncs requests in the runs that also delete.
CancelRequests == 1

\* Number of GET /oauth/callback/google requests.
NumCallbacks == 2
\* Number of POST /connections requests.
NumConnRequests == 2
\* Number of PATCH /connections/{id} requests.
NumUpdates == 1
\* Number of TokenCipher calls in a run.
MaxCalls == 2
\* The clock runs from 0 to MaxNow.
MaxNow == 2
\* The remote history listing has up to MaxPages pages.
MaxPages == 2
\* Number of Connection rows where create_sync fans out over several.
NumConns == 2
\* Number of users where create_sync fans out.
NumUsers == 2

\* ------------------------------------------------------ program constants

\* worker.py:116, "if processed % 25 == 0"
BatchSize == 25
\* gmail.py:234, "maxResults=500"
MaxResults == 500

\* ------------------------------------------------------------ value sets

ReqIds == 1..NumRequests
\* A Sync row's id is a fresh uuid4; the model names it after the request
\* that inserted it.
SyncIds == ReqIds
\* One background task per (scheduling request, job): create_sync adds one
\* task for every job of its list whose status it holds as pending.
TaskIds == ReqIds \X SyncIds
NoTask == <<0, 0>>
ConnIds == {1}
UserIds == {1}
RemoteIds == 1..NumRemote
CbIds == 1..NumCallbacks
\* "s1" is the state token of a started flow; "s2" was never issued.
StateTokens == {"s1", "s2"}

NoRow == [exists |-> FALSE]
Null == "null"
\* A null access_token_expiry (the column holds times, which are numbers).
NoExpiry == 0 - 1

\* models/sync.py, SyncStatus
PENDING == "pending"
RUNNING == "running"
COMPLETED == "completed"
FAILED == "failed"
CANCELLED == "cancelled"
SyncStatus == {PENDING, RUNNING, COMPLETED, FAILED, CANCELLED}
\* Mutation of InFlight: a pending job does not count as in flight.
OnlyRunning == {RUNNING}

InFlight == {PENDING, RUNNING}
Terminal == {COMPLETED, FAILED, CANCELLED}

\* models/sync.py, SyncType
FULL == "full"
INCREMENTAL == "incremental"
MANUAL == "manual"
SyncType == {FULL, INCREMENTAL, MANUAL}
\* The sync types the requests of the model ask for.  MANUAL takes the same
\* path as INCREMENTAL everywhere (the code only compares with FULL).
RequestedTypes == {FULL, INCREMENTAL}

\* models/connection.py, ConnectionStatus
CONN_PENDING == "pending"
CONN_ACTIVE == "active"
CONN_EXPIRED == "expired"
CONN_REVOKED == "revoked"
CONN_FAILED == "failed"
ConnectionStatus == {CONN_PENDING, CONN_ACTIVE, CONN_EXPIRED, CONN_REVOKED, CONN_FAILED}

\* The history cursor the remote account reports (users.getProfile).
RemoteHistoryId == "H2"

VARIABLES
    syncs,      \* table syncs: SyncIds -> row | NoRow
    conns,      \* table connections: ConnIds -> row | NoRow
    messages,   \* table messages: a set of rows
    oauth,      \* table oauth_states: state token -> row | NoRow
    req,        \* create_sync requests
    task,       \* background tasks (process_sync_job)
    del,        \* the delete_sync request in progress
    ndel,       \* delete_sync requests started so far
    cb,         \* google_oauth_callback requests
    exchanges,  \* token exchanges attempted at the provider, per callback
    runlog,     \* history: what each job's latest run found when it started
    now,        \* the clock datetime.now() reads
    remote,     \* the remote mailbox: its message listing and its history pages
    creq,       \* create_connection requests
    nupd,       \* update_connection requests served so far
    calls,      \* the TokenCipher calls made so far, with what they returned
    last        \* the response of the latest one-step request

vars == <<syncs, conns, messages, oauth, req, task, del, ndel, cb, exchanges, runlog, now, remote, creq, nupd, calls, last>>

\* ------------------------------------------------------------ TokenCipher

\* The token texts of the model: an access token, a refresh token, and the
\* text of str(None).
Plaintexts == {"tok", "ref", "None"}

\* Mutation of Encrypt: no check of the argument.
EncryptUnchecked(plaintext) == "fernet:" \o plaintext

\* TokenCipher.encrypt: raises ValueError for None and for "", else the
\* Fernet token of the text (a ciphertext is never equal to its plaintext).
Encrypt(plaintext) ==
    IF plaintext = Null \/ plaintext = "" THEN "ValueError"
    ELSE "fernet:" \o plaintext

\* TokenCipher.decrypt: None for a null or empty ciphertext, InvalidToken
\* for anything that is not a token of this key.
Decrypt(ciphertext) ==
    IF ciphertext = Null \/ ciphertext = "" THEN Null
    ELSE IF \E p \in Plaintexts : ciphertext = "fernet:" \o p
         THEN CHOOSE p \in Plaintexts : ciphertext = "fernet:" \o p
         ELSE "InvalidToken"

\* str(x) as the callback applies it to a token: str(None) is "None".
Str(x) == IF x = Null THEN "None" ELSE x

\* ------------------------------------------------------------------ rows

\* Mutation of NewSync: the request starts the job itself.
StartedSync(c, u, ty) ==
    [exists |-> TRUE, connection_id |-> c, user_id |-> u,
     status |-> RUNNING, sync_type |-> ty,
     time_start |-> TRUE, time_end |-> FALSE,
     messages_synced |-> 0, messages_new |-> 0, messages_updated |-> 0,
     last_history_id |-> Null, error_message |-> Null, retry_count |-> 0,
     progress_percentage |-> 0, updated_at |-> now]

\* A Sync row as create_sync inserts it: the four fields it sets and the
\* column defaults of the model.  updated_at takes the time of the insert
\* and of every later UPDATE of the row (default and onupdate).
NewSync(c, u, ty) ==
    [exists |-> TRUE, connection_id |-> c, user_id |-> u,
     status |-> PENDING, sync_type |-> ty,
     time_start |-> FALSE, time_end |-> FALSE,
     messages_synced |-> 0, messages_new |-> 0, messages_updated |-> 0,
     last_history_id |-> Null, error_message |-> Null, retry_count |-> 0,
     progress_percentage |-> Null, updated_at |-> now]

\* An active Connection of user u whose tokens are stored; the access token
\* expires after the end of the run.
ActiveConnection(u) ==
    [exists |-> TRUE, user_id |-> u, status |-> CONN_ACTIVE, is_active |-> TRUE,
     provider |-> "gmail", provider_account_id |-> "acct",
     access_token |-> Encrypt("tok"), refresh_token |-> Encrypt("ref"),
     access_token_expiry |-> MaxNow + 1,
     last_history_id |-> Null, last_error |-> Null]

IdleRequest == [pc |-> "idle", user_id |-> 0, sync_type |-> Null, rows |-> {}, resp |-> {},
                held |-> {}]

\* No credentials materialised yet.
NoCreds == [raises |-> FALSE, refreshed |-> FALSE, token |-> Null]

NoTaskState ==
    [pc |-> "none", cursor |-> Null, sync_type |-> Null, retry_count |-> 0,
     conn |-> NoRow, creds |-> NoCreds, api |-> Null, requests |-> <<>>,
     progress |-> 0, flushed |-> 0,
     msgs |-> <<>>, new_history_id |-> Null,
     processed |-> 0, new_count |-> 0, updated_count |-> 0]

IdleDelete == [pc |-> "idle", id |-> 0, status |-> Null]

\* A request body that sets no field.
NoFields == [f \in {} |-> Null]

\* No one-step request has been answered yet.
NoResponse == [op |-> Null, id |-> 0, body |-> NoFields, result |-> Null]

\* ------------------------------------------------------------ create_sync

\* create_sync's query: every ACTIVE connection of the user, outer-joined
\* with its PENDING/RUNNING syncs.  A row is (connection, sync or None);
\* the request keeps the status and the Connection object it read with it.
\* Mutation of ActiveConnectionsOf: no filter on the status.
ConnectionsOf(u) ==
    {c \in DOMAIN conns : conns[c].exists /\ conns[c].user_id = u}

\* Lines 199-202, the WHERE clause: the ACTIVE connections of the user.
ActiveConnectionsOf(u) ==
    {c \in DOMAIN conns : /\ conns[c].exists
                          /\ conns[c].user_id = u
                          /\ conns[c].status = CONN_ACTIVE}

SyncQueryRows(u) ==
    UNION { LET inflight == {s \in DOMAIN syncs : /\ syncs[s].exists
                                             /\ syncs[s].connection_id = c
                                             /\ syncs[s].status \in InFlight}
            IN IF inflight = {}
               THEN {[conn |-> c, sync |-> 0, status |-> Null,
                      cursor |-> conns[c].last_history_id, connection |-> conns[c]]}
               ELSE {[conn |-> c, sync |-> s, status |-> syncs[s].status,
                      cursor |-> conns[c].last_history_id, connection |-> conns[c]] :
                     s \in inflight}
          : c \in ActiveConnectionsOf(u) }

\* History kept for the properties: the pending and running jobs on the
\* user's active connections at the moment of the query.
HeldJobs(u) ==
    {[sync |-> s, conn |-> syncs[s].connection_id] :
        s \in {x \in DOMAIN syncs : /\ syncs[x].exists
                               /\ syncs[x].status \in {PENDING, RUNNING}
                               /\ conns[syncs[x].connection_id].exists
                               /\ conns[syncs[x].connection_id].user_id = u
                               /\ conns[syncs[x].connection_id].status = CONN_ACTIVE}}

CreateSyncQuery(r, u, ty) ==
    /\ req[r].pc = "idle"
    \* requests are interchangeable: they arrive in the order of their names
    /\ \A o \in ReqIds : o < r => req[o].pc # "idle"
    /\ req' = [req EXCEPT ![r] = [pc |-> "queried", user_id |-> u, sync_type |-> ty,
                                  rows |-> SyncQueryRows(u), resp |-> {},
                                  held |-> HeldJobs(u)]]
    /\ UNCHANGED <<syncs, conns, messages, task, del, ndel, oauth, cb, exchanges, runlog, now, remote, creq, nupd, calls, last>>

\* Whether inserting a Sync for connection c raises IntegrityError on flush.
\* The syncs table carries a primary key and two foreign keys and no
\* uniqueness over (connection_id, status): an insert for an existing
\* connection and user never conflicts.
InsertConflicts(c) == FALSE

\* The id of the row request r inserts for connection c (a fresh uuid4): the
\* model numbers the rows by request and connection.
NewSyncId(r, c) == (r - 1) * Cardinality(DOMAIN conns) + c

\* The rest of create_sync: the loop over the rows, the commit, the
\* scheduling of the background tasks and the response.
CreateSyncCommit(r) ==
    LET q == req[r]
        reused == {w \in q.rows : w.sync # 0}
        fresh == {w \in q.rows : w.sync = 0 /\ ~InsertConflicts(w.conn)}
        \* rows whose insert conflicted: rollback, re-read the in-flight job
        reread == {w \in q.rows : w.sync = 0 /\ InsertConflicts(w.conn)}
        rereadJobs == UNION {{[conn |-> w.conn, sync |-> s, status |-> syncs[s].status,
                                cursor |-> w.cursor, connection |-> w.connection] :
                               s \in {x \in DOMAIN syncs : /\ syncs[x].exists
                                                      /\ syncs[x].connection_id = w.conn
                                                      /\ syncs[x].status \in InFlight}}
                             : w \in reread}
        created == {[conn |-> w.conn, sync |-> NewSyncId(r, w.conn), status |-> PENDING,
                     cursor |-> w.cursor, connection |-> w.connection] : w \in fresh}
        jobs == reused \cup rereadJobs \cup created
        \* "if sync_job.status == SyncStatus.PENDING: add_task(...)"
        scheduled == {j \in jobs : j.status = PENDING}
    IN /\ q.pc = "queried"
       /\ syncs' = [s \in DOMAIN syncs |->
                      IF \E j \in created : j.sync = s
                      THEN NewSync((CHOOSE j \in created : j.sync = s).conn,
                                   q.user_id, q.sync_type)
                      ELSE syncs[s]]
       /\ task' = [t \in DOMAIN task |->
                     IF t[1] = r /\ \E j \in scheduled : j.sync = t[2]
                     THEN [NoTaskState EXCEPT
                             !.pc = "queued",
                             !.cursor = (CHOOSE j \in scheduled : j.sync = t[2]).cursor,
                             !.conn = (CHOOSE j \in scheduled : j.sync = t[2]).connection]
                     ELSE task[t]]
       /\ req' = [req EXCEPT ![r] = [IdleRequest EXCEPT !.pc = "done",
                                                        !.resp = {j.sync : j \in jobs}]]
       /\ UNCHANGED <<conns, messages, del, ndel, oauth, cb, exchanges, runlog, now, remote, creq, nupd, calls, last>>

\* ------------------------------------------------------- the remote mailbox

\* A mailbox of NumRemote messages whose history after any cursor is one page
\* that adds nothing and reports the account's cursor.
QuietRemote ==
    [listing |-> [i \in 1..NumRemote |-> i], per_page |-> MaxResults,
     pages |-> <<[added |-> <<>>, historyId |-> RemoteHistoryId]>>]

\* "page_token = None" (line 229): no page token.  A token of the model is
\* the position in the listing at which the next page starts.
NoPageToken == 0

\* users.messages.list(maxResults, pageToken): one page of the listing, of as
\* many ids as the provider hands out at once and at most MaxResults, with
\* the token of the next page when ids remain.
ListPage(token) ==
    LET from == IF token = NoPageToken THEN 1 ELSE token
        size == IF remote.per_page < MaxResults THEN remote.per_page ELSE MaxResults
        upto == IF from + size - 1 < Len(remote.listing)
                THEN from + size - 1 ELSE Len(remote.listing)
    IN [messages |-> SubSeq(remote.listing, from, upto),
        nextPageToken |-> IF upto < Len(remote.listing) THEN upto + 1 ELSE NoPageToken]

\* Mutation of FullListFrom: the first page only.
FirstPageOnly(token) ==
    [messages |-> ListPage(token).messages,
     requests |-> <<[api |-> "messages.list", pageToken |-> token]>>]

\* Lines 231-243, the loop of the full sync from a page token on: request the
\* page, collect its ids, go on with its nextPageToken, stop when it has
\* none.  The result carries the requests made.
RECURSIVE FullListFrom(_)
FullListFrom(token) ==
    LET res == ListPage(token)
        request == [api |-> "messages.list", pageToken |-> token]
    IN IF res.nextPageToken = NoPageToken
       THEN [messages |-> res.messages, requests |-> <<request>>]
       ELSE LET rest == FullListFrom(res.nextPageToken)
            IN [messages |-> res.messages \o rest.messages,
                requests |-> <<request>> \o rest.requests]

\* Lines 229-247: the whole listing, then users.getProfile for the cursor.
FullListing ==
    LET all == FullListFrom(NoPageToken)
    IN [messages |-> all.messages,
        requests |-> Append(all.requests, [api |-> "getProfile", pageToken |-> NoPageToken])]

\* users.history.list from a cursor, as pages: each page carries the
\* messages added and the historyId the provider reports.  The remote mailbox
\* does not change during a run of the model.
HistoryPages(cursor) == remote.pages

RECURSIVE ConcatAdded(_)
ConcatAdded(pages) ==
    IF pages = <<>> THEN <<>> ELSE Head(pages).added \o ConcatAdded(Tail(pages))

\* gmail_sync_messages: the full listing when sync_type is FULL or there is
\* no cursor, else the history listing; the incremental loop takes a page's
\* historyId only after finding a next-page token, so the last page's
\* historyId is not adopted.
\* Mutation of TakesFullListing: the cursor is not looked at.
FullOnlyWhenAsked(ty, cursor) == ty = FULL

\* Line 228, "if sync_type == SyncType.FULL or not last_history_id": a null
\* and an empty cursor both count as none.
TakesFullListing(ty, cursor) == ty = FULL \/ cursor \in {Null, ""}

GmailSyncMessages(ty, cursor) ==
    IF TakesFullListing(ty, cursor)
    THEN [api |-> "messages.list", requests |-> FullListing.requests,
          messages |-> FullListing.messages, last_history_id |-> RemoteHistoryId]
    ELSE LET pages == HistoryPages(cursor)
         IN [api |-> "history.list", requests |-> <<>>,
             messages |-> ConcatAdded(pages),
             last_history_id |-> IF Len(pages) > 1
                                 THEN pages[Len(pages) - 1].historyId
                                 ELSE cursor]

\* ------------------------------------------------------ the messages table

\* The rows the unique constraint uq_user_external_message matches.
UpsertHit(rows, u, e) == {m \in rows : m.user_id = u /\ m.external_id = e}

\* Mutation of UpsertMessage: a plain INSERT, no conflict target.
InsertMessage(rows, t, u, e) ==
    rows \cup {[rid |-> <<t, e>>, user_id |-> u, external_id |-> e,
                lock |-> t, fresh |-> TRUE]}

\* INSERT ... ON CONFLICT (user_id, external_id) DO UPDATE, run by task t.
\* The row is locked by t's transaction until t commits or rolls back.
UpsertMessage(rows, t, u, e) ==
    IF UpsertHit(rows, u, e) = {}
    THEN rows \cup {[rid |-> <<t, e>>, user_id |-> u, external_id |-> e,
                     lock |-> t, fresh |-> TRUE]}
    ELSE {IF m \in UpsertHit(rows, u, e) THEN [m EXCEPT !.lock = t] ELSE m : m \in rows}

\* Mutation of WasInserted: every row is reported as updated.
NeverInserted(rows, u, e) == FALSE

\* Mutation of WasInserted: every row is reported as inserted.
AlwaysInserted(rows, u, e) == TRUE

\* RETURNING xmax = 0 AS inserted
WasInserted(rows, u, e) == UpsertHit(rows, u, e) = {}

\* The statement waits while another open transaction holds the row.
UpsertBlocked(rows, t, u, e) ==
    \E m \in UpsertHit(rows, u, e) : m.lock \notin {NoTask, t}

\* Commit of t's transaction on the messages table.
CommitMessages(rows, t) ==
    {IF m.lock = t THEN [m EXCEPT !.lock = NoTask, !.fresh = FALSE] ELSE m : m \in rows}

\* Rollback of t's transaction on the messages table.
RollbackMessages(rows, t) ==
    {IF m.lock = t THEN [m EXCEPT !.lock = NoTask] ELSE m :
     m \in {x \in rows : ~(x.lock = t /\ x.fresh)}}

\* -------------------------------------------------------- process_sync_job

\* A task that has ended: its session is closed, its locals are gone.
Ended(how) == [NoTaskState EXCEPT !.pc = how]

\* BackgroundTasks runs the tasks of one request one after the other.
SiblingRunning(t) ==
    \E o \in TaskIds : o # t /\ o[1] = t[1] /\ task[o].pc \in {"running", "ingest"}

\* The committed (user_id, external_id) keys of the messages table.
MessageKeys == {<<m.user_id, m.external_id>> : m \in {x \in messages : ~x.fresh}}

\* History kept for the properties: the messages_synced of the full syncs
\* completed before a run starts, and the keys mirrored at that moment.
RunStartRecord ==
    [prior |-> {syncs[s].messages_synced :
                s \in {x \in SyncIds : /\ syncs[x].exists
                                       /\ syncs[x].status = COMPLETED
                                       /\ syncs[x].sync_type = FULL}},
     seen |-> TRUE,
     keys |-> MessageKeys]

NoRun == [prior |-> {}, seen |-> FALSE, keys |-> {}]

\* Lines 32-45: load the job (scalar_one raises outside the try when the row
\* is gone), set RUNNING, stamp time_start, reset progress, commit.
WorkerStart(t) ==
    /\ task[t].pc = "queued"
    /\ ~SiblingRunning(t)
    /\ IF ~syncs[t[2]].exists
       THEN /\ task' = [task EXCEPT ![t] = Ended("raised")]
            /\ UNCHANGED <<syncs, runlog>>
       ELSE /\ syncs' = [syncs EXCEPT ![t[2]].status = RUNNING,
                                      ![t[2]].time_start = TRUE,
                                      ![t[2]].progress_percentage = 0,
                                      ![t[2]].updated_at = now]
            /\ task' = [task EXCEPT ![t].pc = "running",
                                    ![t].sync_type = syncs[t[2]].sync_type,
                                    ![t].retry_count = syncs[t[2]].retry_count]
            /\ runlog' = [runlog EXCEPT ![t[2]] = RunStartRecord]
    /\ UNCHANGED <<conns, messages, req, del, ndel, oauth, cb, exchanges, now, remote, creq, nupd, calls, last>>

\* The progress_percentage of job row `row` after a commit of the task in
\* state w: the session writes the attribute when the value the task holds
\* differs from the one the session last loaded or wrote.
FlushProgress(row, w) ==
    IF w.progress # w.flushed THEN w.progress ELSE row.progress_percentage

\* Mutation of FailedRunConnections: the cursor is assigned to the Connection
\* as soon as it is fetched, so the except branch's commit writes it.
CursorAssignedEarly(t) ==
    IF conns[syncs[t[2]].connection_id].exists
    THEN [conns EXCEPT ![syncs[t[2]].connection_id].last_history_id =
                           task[t].new_history_id]
    ELSE conns

\* The connections table after the except branch's commit of run t: the run
\* loads its Connection row at line 126 and assigns the cursor at line 129,
\* and nothing raises between there and the final commit, so no change of a
\* Connection is pending when the except branch commits.
FailedRunConnections(t) == conns

\* Lines 138-145, the except branch: FAILED, time_end, error_message,
\* retry_count + 1, commit (which also writes the progress the loop has set
\* since the last commit).  The commit runs on the task's own session: when
\* the exception came from the database (the transaction is aborted) or the
\* job's row is gone, the commit raises as well, the transaction is rolled
\* back and the exception leaves process_sync_job.
HandleException(t, aborted) ==
    IF aborted \/ ~syncs[t[2]].exists
    THEN /\ messages' = RollbackMessages(messages, t)
         /\ task' = [task EXCEPT ![t] = Ended("raised")]
         /\ UNCHANGED <<syncs, conns>>
    ELSE /\ syncs' = [syncs EXCEPT ![t[2]].status = FAILED,
                                   ![t[2]].time_end = TRUE,
                                   ![t[2]].error_message = "error",
                                   ![t[2]].retry_count = task[t].retry_count + 1,
                                   ![t[2]].progress_percentage =
                                        FlushProgress(syncs[t[2]], task[t]),
                                   ![t[2]].updated_at = now]
         /\ messages' = CommitMessages(messages, t)
         /\ conns' = FailedRunConnections(t)
         /\ task' = [task EXCEPT ![t] = Ended("returned")]

\* Whether the credentials built from a Connection are expired at time at.
\* Credentials built without an expiry are given one in the past by
\* from_authorized_user_info.
CredsExpired(conn, at) ==
    conn.access_token_expiry = NoExpiry \/ conn.access_token_expiry <= at

\* The access token a refresh at the provider returns.
RefreshedToken == "tok2"

\* connection_to_creds: decrypt both tokens (InvalidToken raises), build the
\* credentials; when they are not valid, refresh them if they are expired
\* and there is a refresh token (the provider may refuse), else raise
\* RuntimeError.  Nothing is written to the Connection.
ConnectionToCreds(conn, at, refresh_ok) ==
    LET token == Decrypt(conn.access_token)
        refresh_token == Decrypt(conn.refresh_token)
        valid == token # Null /\ ~CredsExpired(conn, at)
    IN IF token = "InvalidToken" \/ refresh_token = "InvalidToken"
       THEN [raises |-> TRUE, refreshed |-> FALSE, token |-> Null]
       ELSE IF valid
       THEN [raises |-> FALSE, refreshed |-> FALSE, token |-> token]
       ELSE IF CredsExpired(conn, at) /\ refresh_token \notin {Null, ""}
       THEN IF refresh_ok
            THEN [raises |-> FALSE, refreshed |-> TRUE, token |-> RefreshedToken]
            ELSE [raises |-> TRUE, refreshed |-> FALSE, token |-> Null]
       ELSE [raises |-> TRUE, refreshed |-> FALSE, token |-> Null]

\* Lines 50-60: materialise the credentials from the Connection object the
\* request passed and pull the remote messages.  Either call may raise
\* (decryption, refresh, provider error).
WorkerFetch(t) ==
    /\ task[t].pc = "running"
    /\ \E refresh_ok \in BOOLEAN :
          LET creds == ConnectionToCreds(task[t].conn, now, refresh_ok)
              res == GmailSyncMessages(task[t].sync_type, task[t].cursor)
          IN IF creds.raises
             THEN HandleException(t, FALSE)
             ELSE \/ /\ task' = [task EXCEPT ![t].pc = "ingest",
                                              ![t].creds = creds,
                                              ![t].api = res.api,
                                              ![t].requests = res.requests,
                                              ![t].msgs = res.messages,
                                              ![t].new_history_id = res.last_history_id]
                     /\ UNCHANGED <<syncs, messages, conns>>
                  \/ HandleException(t, FALSE)
    /\ UNCHANGED <<req, del, ndel, oauth, cb, exchanges, runlog, now, remote, creq, nupd, calls, last>>

\* Mutation of ProgressPercentage: the share that is left.
ProgressLeft(processed, total) == ((total - processed) * 100) \div total

\* int((processed / total) * 100), computed in binary floating point: the
\* integer part of the exact quotient for every total below 60 except
\* 29 of 50, where the product is 57.99999999999999.
ProgressPercentage(processed, total) ==
    IF processed = 29 /\ total = 50 THEN 57 ELSE (processed * 100) \div total

\* Lines 66-117, one pass of the loop: upsert one message, count it, set the
\* progress, commit every BatchSize messages.  The statement may be rejected
\* by the database (a value the column does not take), which aborts the
\* transaction; building the statement may raise in Python (int() of a
\* malformed historyId).
WorkerUpsert(t) ==
    LET w == task[t]
        u == syncs[t[2]].user_id
        e == w.msgs[w.processed + 1]
        n == w.processed + 1
    IN /\ w.pc = "ingest"
       /\ w.processed < Len(w.msgs)
       /\ IF ~syncs[t[2]].exists
          THEN \* the flush of the job's progress finds no row
               HandleException(t, TRUE)
          ELSE \/ /\ ~UpsertBlocked(messages, t, u, e)
                  /\ task' = [task EXCEPT
                        ![t].processed = n,
                        ![t].progress = ProgressPercentage(n, Len(w.msgs)),
                        ![t].flushed = IF n % BatchSize = 0
                                       THEN ProgressPercentage(n, Len(w.msgs)) ELSE @,
                        ![t].new_count = IF WasInserted(messages, u, e)
                                         THEN @ + 1 ELSE @,
                        ![t].updated_count = IF WasInserted(messages, u, e)
                                             THEN @ ELSE @ + 1]
                  /\ IF n % BatchSize = 0
                     THEN /\ messages' = CommitMessages(UpsertMessage(messages, t, u, e), t)
                          /\ syncs' = [syncs EXCEPT ![t[2]].progress_percentage =
                                          FlushProgress(syncs[t[2]],
                                             [w EXCEPT !.progress =
                                                ProgressPercentage(n, Len(w.msgs))]),
                                                    ![t[2]].updated_at = now]
                     ELSE /\ messages' = UpsertMessage(messages, t, u, e)
                          /\ UNCHANGED syncs
                  /\ UNCHANGED conns
               \/ HandleException(t, TRUE)
               \/ HandleException(t, FALSE)
       /\ UNCHANGED <<req, del, ndel, oauth, cb, exchanges, runlog, now, remote, creq, nupd, calls, last>>

\* Mutation of ConnectionCursor: the Connection keeps the cursor it had.
StaleConnectionCursor(old, new) == old

\* Line 129, "conn_db.last_history_id = result["last_history_id"]": the
\* Connection's cursor after the final commit, given the one it held.
ConnectionCursor(old, new) == new

\* Lines 119-136: commit the last batch, write the counters and the cursor
\* to the job, the cursor to the Connection, COMPLETED and time_end, commit.
WorkerFinish(t) ==
    LET w == task[t]
        c == syncs[t[2]].connection_id
    IN /\ w.pc = "ingest"
       /\ w.processed = Len(w.msgs)
       /\ IF ~syncs[t[2]].exists
          THEN HandleException(t, TRUE)
          ELSE IF ~conns[c].exists
          THEN \* "Connection no longer exists for this sync job"
               HandleException(t, FALSE)
          ELSE /\ messages' = CommitMessages(messages, t)
               /\ syncs' = [syncs EXCEPT
                     ![t[2]].messages_synced = Len(w.msgs),
                     ![t[2]].messages_new = w.new_count,
                     ![t[2]].messages_updated = w.updated_count,
                     ![t[2]].last_history_id = w.new_history_id,
                     \* the commit after the loop writes the loop's progress;
                     \* line 131 then changes it only if that was not 100
                     ![t[2]].progress_percentage =
                          IF w.progress # 100 THEN 100
                          ELSE FlushProgress(syncs[t[2]], w),
                     ![t[2]].status = COMPLETED,
                     ![t[2]].time_end = TRUE,
                     ![t[2]].updated_at = now]
               /\ conns' = [conns EXCEPT ![c].last_history_id =
                                  ConnectionCursor(@, w.new_history_id)]
               /\ task' = [task EXCEPT ![t] = Ended("returned")]
       /\ UNCHANGED <<req, del, ndel, oauth, cb, exchanges, runlog, now, remote, creq, nupd, calls, last>>

\* -------------------------------------------------------------- delete_sync

\* Lines 303-312: load the job of the current user; 404 when there is none.
DeleteSyncRead(s) ==
    /\ del.pc = "idle"
    /\ ndel < NumDeletes
    /\ ndel' = ndel + 1
    /\ del' = IF syncs[s].exists
              THEN [pc |-> "read", id |-> s, status |-> syncs[s].status]
              ELSE IdleDelete
    /\ UNCHANGED <<syncs, conns, messages, req, task, oauth, cb, exchanges, runlog, now, remote, creq, nupd, calls, last>>

\* Mutation of CancelInsteadOfDelete: every in-flight job is cancelled.
CancelInFlight(status) == status \in InFlight

\* Line 315: "if sync_job.status == SyncStatus.RUNNING"
CancelInsteadOfDelete(status) == status = RUNNING

\* Lines 314-322: a job read as RUNNING is marked CANCELLED with time_end
\* stamped; any other job is deleted.  Either statement changes nothing when
\* the row is gone by then.
DeleteSyncCommit ==
    /\ del.pc = "read"
    /\ syncs' = IF ~syncs[del.id].exists THEN syncs
                ELSE IF CancelInsteadOfDelete(del.status)
                THEN [syncs EXCEPT ![del.id].status = CANCELLED,
                                   ![del.id].time_end = TRUE,
                                   ![del.id].updated_at = now]
                ELSE [syncs EXCEPT ![del.id] = NoRow]
    /\ del' = IdleDelete
    /\ UNCHANGED <<conns, messages, req, task, ndel, oauth, cb, exchanges, runlog, now, remote, creq, nupd, calls, last>>

\* -------------------------------------------------------------- update_sync

\* utils/auth.py, get_current_user: every request is the test user's.
CurrentUser == 1

\* The request bodies of the model (SyncUpdate, the fields that were set):
\* none of the modelled columns (a body with current_operation only), a
\* status, a null status, counters, the error fields, the times.
SyncUpdate ==
    {[current_operation |-> "op"],
     [status |-> CANCELLED],
     [status |-> RUNNING, time_start |-> TRUE, progress_percentage |-> 0],
     [status |-> Null],
     [messages_synced |-> 2, messages_new |-> 1, messages_updated |-> 1],
     [status |-> FAILED, error_message |-> "error", time_end |-> TRUE]}

\* The columns of syncs that do not take NULL, among those SyncUpdate names.
NotNullColumns == {"status"}

\* The row after setattr for every field of the body and the refresh of
\* updated_at.
ApplySyncUpdate(row, body, at) ==
    [f \in DOMAIN row |-> IF f \in DOMAIN body THEN body[f]
                          ELSE IF f = "updated_at" THEN at
                          ELSE row[f]]

\* Mutation of OwnedBy: the job is looked up by id only.
AnyOwner(row, u) == TRUE

\* Line 271, "Sync.user_id == current_user"
OwnedBy(row, u) == row.user_id = u

\* update_sync: 404 unless the job exists and is the current user's; then
\* setattr for every field of the body, updated_at, commit.  The commit
\* fails on a NULL for a column that does not take one; the session is then
\* rolled back and nothing is written.
UpdateSync(s, body) ==
    LET answer(r) == [op |-> "update_sync", id |-> s, body |-> body, result |-> r]
    IN /\ IF ~(syncs[s].exists /\ OwnedBy(syncs[s], CurrentUser))
          THEN /\ last' = answer("not_found")
               /\ UNCHANGED syncs
          ELSE IF \E f \in DOMAIN body \cap NotNullColumns : body[f] = Null
          THEN /\ last' = answer("server_error")
               /\ UNCHANGED syncs
          ELSE /\ syncs' = [syncs EXCEPT ![s] = ApplySyncUpdate(@, body, now)]
               /\ last' = answer("ok")
       /\ UNCHANGED <<conns, messages, oauth, req, task, del, ndel, cb, exchanges,
                      runlog, now, remote, creq, nupd, calls>>

\* ------------------------------------------------------- the sync machine

InitSync ==
    /\ syncs = [s \in SyncIds |-> NoRow]
    /\ conns = [c \in ConnIds |-> ActiveConnection(1)]
    /\ messages = {}
    /\ req = [r \in ReqIds |-> IdleRequest]
    /\ task = [t \in TaskIds |-> NoTaskState]
    /\ del = IdleDelete
    /\ ndel = 0
    /\ oauth = <<>>
    /\ cb = <<>>
    /\ exchanges = 0
    /\ runlog = [s \in SyncIds |-> NoRun]
    /\ now = 0
    /\ creq = <<>>
    /\ nupd = 0
    /\ calls = <<>>
    /\ remote = QuietRemote
    /\ last = NoResponse

\* create_sync requests and the background tasks they schedule.
NextSync ==
    \/ \E r \in ReqIds, u \in UserIds, ty \in RequestedTypes : CreateSyncQuery(r, u, ty)
    \/ \E r \in ReqIds : CreateSyncCommit(r)
    \/ \E t \in TaskIds : WorkerStart(t)
    \/ \E t \in TaskIds : WorkerFetch(t)
    \/ \E t \in TaskIds : WorkerUpsert(t)
    \/ \E t \in TaskIds : WorkerFinish(t)

SpecSync == InitSync /\ [][NextSync]_vars

\* Fair scheduling: a request that has run its query goes on to its commit,
\* and BackgroundTasks runs every task it was given; a call to the provider
\* or to the database returns or fails, so a task that can take its next
\* step takes it.
FairSync ==
    /\ \A r \in ReqIds : WF_vars(CreateSyncCommit(r))
    /\ \A t \in TaskIds : /\ WF_vars(WorkerStart(t))
                          /\ WF_vars(WorkerFetch(t))
                          /\ WF_vars(WorkerUpsert(t))
                          /\ WF_vars(WorkerFinish(t))

LiveSync == SpecSync /\ FairSync

\* create_sync, the background tasks and delete_sync requests against them.
NextCancel ==
    \/ \E r \in 1..CancelRequests, u \in UserIds, ty \in RequestedTypes :
          CreateSyncQuery(r, u, ty)
    \/ \E r \in ReqIds : CreateSyncCommit(r)
    \/ \E t \in TaskIds : WorkerStart(t)
    \/ \E t \in TaskIds : WorkerFetch(t)
    \/ \E t \in TaskIds : WorkerUpsert(t)
    \/ \E t \in TaskIds : WorkerFinish(t)
    \/ \E s \in SyncIds : DeleteSyncRead(s)
    \/ DeleteSyncCommit

SpecCancel == InitSync /\ [][NextCancel]_vars

\* ------------------------------------------- create_sync over connections

\* The Connection rows of the fan-out runs: any owner, active or not.
FanConnections ==
    {[ActiveConnection(u) EXCEPT !.status = st] :
        u \in 1..NumUsers, st \in {CONN_ACTIVE, CONN_PENDING, CONN_EXPIRED}}

\* A job as process_sync_job leaves it after its first commit.
RunningJob(c, u) ==
    [NewSync(c, u, FULL) EXCEPT !.status = RUNNING, !.time_start = TRUE,
                                !.progress_percentage = 0]

\* The id of the job that is there before the request.
EarlierJob == NumConns + 1

\* NumConns connections of any owner and status; the earlier job is either
\* absent or running on connection 1.
InitFanout ==
    /\ now = 0
    /\ conns \in [1..NumConns -> FanConnections]
    /\ \E j \in {NoRow, RunningJob(1, conns[1].user_id)} :
          syncs = [s \in 1..EarlierJob |-> IF s = EarlierJob THEN j ELSE NoRow]
    /\ messages = {}
    /\ req = [r \in ReqIds |-> IdleRequest]
    /\ task = [t \in {1} \X (1..EarlierJob) |-> NoTaskState]
    /\ del = IdleDelete
    /\ ndel = 0
    /\ oauth = <<>>
    /\ cb = <<>>
    /\ exchanges = 0
    /\ runlog = [s \in SyncIds |-> NoRun]
    /\ remote = QuietRemote
    /\ creq = <<>>
    /\ nupd = 0
    /\ calls = <<>>
    /\ last = NoResponse

\* One create_sync request of any user.
NextFanout ==
    \/ \E u \in 1..NumUsers, ty \in RequestedTypes : CreateSyncQuery(1, u, ty)
    \/ CreateSyncCommit(1)

SpecFanout == InitFanout /\ [][NextFanout]_vars

\* ------------------------------------------------------ incremental sync

\* The cursor a Connection holds after an earlier sync.
StoredHistoryId == "H1"

\* A Connection an earlier sync has left its cursor on.
SyncedConnection(u, cursor) == [ActiveConnection(u) EXCEPT !.last_history_id = cursor]

\* The history listings of the model: 1..MaxPages pages, the first k of them
\* adding one message each; the last page reports the account's cursor, a
\* page before it reports either the stored cursor or the account's cursor.
HistoryListings ==
    UNION { { [i \in 1..n |->
                 [added |-> IF i <= k THEN <<i>> ELSE <<>>,
                  historyId |-> IF i = n THEN RemoteHistoryId ELSE h]] :
              k \in 0..(IF n < NumRemote THEN n ELSE NumRemote),
              h \in {StoredHistoryId, RemoteHistoryId} } :
            n \in 1..MaxPages }

\* A Connection synced up to StoredHistoryId, and a remote mailbox whose
\* history since then is any of the listings.
InitIncr ==
    /\ syncs = [s \in SyncIds |-> NoRow]
    /\ conns = [c \in ConnIds |-> SyncedConnection(1, StoredHistoryId)]
    /\ messages = {}
    /\ req = [r \in ReqIds |-> IdleRequest]
    /\ task = [t \in TaskIds |-> NoTaskState]
    /\ del = IdleDelete
    /\ ndel = 0
    /\ oauth = <<>>
    /\ cb = <<>>
    /\ exchanges = 0
    /\ runlog = [s \in SyncIds |-> NoRun]
    /\ now = 0
    /\ creq = <<>>
    /\ nupd = 0
    /\ calls = <<>>
    /\ \E pages \in HistoryListings :
          remote = [QuietRemote EXCEPT !.pages = pages]
    /\ last = NoResponse

\* One create_sync request and the background task it schedules.
NextIncr ==
    \/ \E u \in UserIds, ty \in RequestedTypes : CreateSyncQuery(1, u, ty)
    \/ CreateSyncCommit(1)
    \/ \E t \in TaskIds : WorkerStart(t)
    \/ \E t \in TaskIds : WorkerFetch(t)
    \/ \E t \in TaskIds : WorkerUpsert(t)
    \/ \E t \in TaskIds : WorkerFinish(t)

SpecIncr == InitIncr /\ [][NextIncr]_vars

\* ------------------------------------------------ sync types and cursors

\* A Connection with no cursor, an empty one or a stored one; one request of
\* any sync type (SyncCreate takes full, incremental and manual, and manual
\* is its default).
InitModes ==
    /\ syncs = [s \in SyncIds |-> NoRow]
    /\ \E h \in {Null, "", StoredHistoryId} :
          conns = [c \in ConnIds |-> SyncedConnection(1, h)]
    /\ messages = {}
    /\ req = [r \in ReqIds |-> IdleRequest]
    /\ task = [t \in TaskIds |-> NoTaskState]
    /\ del = IdleDelete
    /\ ndel = 0
    /\ oauth = <<>>
    /\ cb = <<>>
    /\ exchanges = 0
    /\ runlog = [s \in SyncIds |-> NoRun]
    /\ now = 0
    /\ creq = <<>>
    /\ nupd = 0
    /\ calls = <<>>
    /\ \E pages \in HistoryListings :
          remote = [QuietRemote EXCEPT !.pages = pages]
    /\ last = NoResponse

NextModes ==
    \/ \E u \in UserIds, ty \in SyncType : CreateSyncQuery(1, u, ty)
    \/ CreateSyncCommit(1)
    \/ \E t \in TaskIds : WorkerStart(t)
    \/ \E t \in TaskIds : WorkerFetch(t)
    \/ \E t \in TaskIds : WorkerUpsert(t)
    \/ \E t \in TaskIds : WorkerFinish(t)

SpecModes == InitModes /\ [][NextModes]_vars

\* ------------------------------------------------------- paged listings

\* A mailbox of up to NumRemote + 1 messages that the provider lists in
\* pages of 1..NumRemote messages; a Connection without a cursor.
InitPages ==
    /\ syncs = [s \in SyncIds |-> NoRow]
    /\ conns = [c \in ConnIds |-> ActiveConnection(1)]
    /\ messages = {}
    /\ req = [r \in ReqIds |-> IdleRequest]
    /\ task = [t \in TaskIds |-> NoTaskState]
    /\ del = IdleDelete
    /\ ndel = 0
    /\ oauth = <<>>
    /\ cb = <<>>
    /\ exchanges = 0
    /\ runlog = [s \in SyncIds |-> NoRun]
    /\ now = 0
    /\ creq = <<>>
    /\ nupd = 0
    /\ calls = <<>>
    /\ \E n \in 0..(NumRemote + 1), size \in 1..NumRemote :
          remote = [QuietRemote EXCEPT !.listing = [i \in 1..n |-> i],
                                       !.per_page = size]
    /\ last = NoResponse

\* One create_sync request and its background task over the paged mailbox.
SpecPages == InitPages /\ [][NextIncr]_vars

\* ------------------------------------------------------ stored credentials

\* The Connections a sync may find: an access token stored or not, expired
\* or not, a refresh token stored or not.
CredentialStates ==
    {[ActiveConnection(u) EXCEPT !.access_token = a, !.access_token_expiry = e,
                                 !.refresh_token = r] :
        u \in UserIds, a \in {Null, Encrypt("tok")}, e \in {0, MaxNow + 1},
        r \in {Null, Encrypt("ref")}}

InitCreds ==
    /\ syncs = [s \in SyncIds |-> NoRow]
    /\ conns \in [ConnIds -> CredentialStates]
    /\ messages = {}
    /\ req = [r \in ReqIds |-> IdleRequest]
    /\ task = [t \in TaskIds |-> NoTaskState]
    /\ del = IdleDelete
    /\ ndel = 0
    /\ oauth = <<>>
    /\ cb = <<>>
    /\ exchanges = 0
    /\ runlog = [s \in SyncIds |-> NoRun]
    /\ now = 0
    /\ remote = QuietRemote
    /\ creq = <<>>
    /\ nupd = 0
    /\ calls = <<>>
    /\ last = NoResponse

\* One create_sync request and its background task over stored credentials.
SpecCreds == InitCreds /\ [][NextIncr]_vars

\* ------------------------------------------------- google_oauth_callback

\* A Connection as the start of an OAuth flow leaves it: pending, no tokens.
PendingConnection(u) ==
    [exists |-> TRUE, user_id |-> u, status |-> CONN_PENDING, is_active |-> TRUE,
     provider |-> "gmail", provider_account_id |-> Null, access_token |-> Null,
     refresh_token |-> Null, access_token_expiry |-> NoExpiry,
     last_history_id |-> Null, last_error |-> Null]

\* An oauth_states row: the columns of the OAuth model.  The model maps no
\* connection_id column (it is commented out).  expires_at is
\* DateTime(timezone=True): tz_aware tells whether the database driver hands
\* it back with a time zone (PostgreSQL) or without one (SQLite).
OAuthRow(u, expires, aware) ==
    [exists |-> TRUE, user_id |-> u, provider |-> "gmail",
     redirect_url |-> Null, expires_at |-> expires, tz_aware |-> aware]

IdleCallback ==
    [pc |-> "idle", state |-> Null, provider |-> Null, refresh |-> Null,
     result |-> Null, second |-> FALSE, overlap |-> FALSE, redirect |-> Null]

\* What the provider answers to this callback's code.
ProviderOutcomes == {"ok", "exchange_fails", "lookup_fails"}

\* Mutation of StateConnectionId: the row carries the id of the connection
\* the flow was started for.
BoundConnectionId(row) == [raises |-> FALSE, value |-> 1]

\* "oauth_state.connection_id" (line 58): the attribute the OAuth model does
\* not define; reading it raises AttributeError and yields no value.
StateConnectionId(row) == [raises |-> TRUE, value |-> 0]

\* "oauth_state.expires_at < datetime.now()"
StateExpired(row, t) == row.expires_at < t

\* datetime.now() has no time zone: comparing it with an expires_at that has
\* one raises TypeError.
ExpiryCheckRaises(row) == row.tz_aware

\* Lines 40-55: the provider's error parameter, the state lookup, the expiry
\* check.  `second` and `overlap` are history for the properties: whether a
\* callback for the same state had already been processed, or is in progress.
CallbackBegin(k, s, err, prov, refresh) ==
    LET first == [IdleCallback EXCEPT
                    !.state = s, !.provider = prov, !.refresh = refresh,
                    !.second = \E o \in CbIds : cb[o].pc = "done" /\ cb[o].state = s,
                    !.overlap = \E o \in CbIds : cb[o].pc = "loaded" /\ cb[o].state = s]
    IN /\ cb[k].pc = "idle"
       \* requests are interchangeable: they arrive in the order of their names
       /\ \A o \in CbIds : o < k => cb[o].pc # "idle"
       /\ IF err
          THEN \* HTTP 400 "Authorization failed", nothing read or written
               /\ cb' = [cb EXCEPT ![k] = [first EXCEPT !.pc = "done",
                                                        !.result = "authorization_denied"]]
               /\ UNCHANGED oauth
          ELSE IF ~oauth[s].exists
          THEN /\ cb' = [cb EXCEPT ![k] = [first EXCEPT !.pc = "done",
                                                        !.result = "invalid_state"]]
               /\ UNCHANGED oauth
          ELSE IF ExpiryCheckRaises(oauth[s])
          THEN \* TypeError leaves through get_db: HTTP 500, nothing written
               /\ cb' = [cb EXCEPT ![k] = [first EXCEPT !.pc = "done",
                                                        !.result = "server_error"]]
               /\ UNCHANGED oauth
          ELSE IF StateExpired(oauth[s], now)
          THEN /\ oauth' = [oauth EXCEPT ![s] = NoRow]
               /\ cb' = [cb EXCEPT ![k] = [first EXCEPT !.pc = "done",
                                                        !.result = "state_expired"]]
          ELSE /\ cb' = [cb EXCEPT ![k] = [first EXCEPT !.pc = "loaded"]]
               /\ UNCHANGED oauth
       /\ UNCHANGED <<syncs, conns, messages, req, task, del, ndel, exchanges, runlog, now, remote, creq, nupd, calls, last>>

\* Lines 92-107: what the callback writes to the Connection it loaded, given
\* the account id and the credentials the provider returned.  Both tokens go
\* through str() before they are encrypted.
StoreCredentials(connection, account, token, refresh_token) ==
    LET access == Encrypt(Str(token))
        refresh == Encrypt(Str(refresh_token))
    IN IF access = "ValueError" \/ refresh = "ValueError"
       THEN [raises |-> TRUE, connection |-> connection]
       ELSE [raises |-> FALSE,
             connection |-> [connection EXCEPT !.provider_account_id = account,
                                               !.status = CONN_ACTIVE,
                                               !.access_token = access,
                                               !.refresh_token = refresh,
                                               !.is_active = TRUE]]

\* Mutation of CallbackFinish: the code is exchanged before the bound
\* Connection is read.
ExchangeBeforeChecks(k, redirect_ok) ==
    /\ cb[k].pc = "loaded"
    /\ exchanges' = exchanges + 1
    /\ cb' = [cb EXCEPT ![k].pc = "done", ![k].result = "server_error"]
    /\ UNCHANGED <<syncs, conns, messages, oauth, req, task, del, ndel, runlog, now,
                   remote, creq, nupd, calls, last>>

\* Lines 57-117: load the bound Connection, check the redirect URI, exchange
\* the code, look the account up, store the encrypted tokens, delete the
\* state, commit.  An exception that is not handled leaves through get_db,
\* which rolls the session back: nothing of the request is persisted.
CallbackFinish(k, redirect_ok) ==
    LET attr == StateConnectionId(oauth[cb[k].state])
        c == attr.value
        end(r) == [cb EXCEPT ![k].pc = "done", ![k].result = r]
        \* the outcomes past line 65, where the redirect URI was checked
        checked(r) == [cb EXCEPT ![k].pc = "done", ![k].result = r,
                                 ![k].redirect = IF redirect_ok THEN "allowed"
                                                 ELSE "not_allowed"]
        stored == StoreCredentials(conns[c], "acct", "tok", cb[k].refresh)
    IN /\ cb[k].pc = "loaded"
       /\ IF attr.raises
          THEN /\ cb' = end("server_error")
               /\ UNCHANGED <<oauth, conns, exchanges>>
          ELSE IF ~conns[c].exists
          THEN /\ cb' = end("connection_not_found")
               /\ UNCHANGED <<oauth, conns, exchanges>>
          ELSE IF ~redirect_ok
          THEN /\ cb' = checked("redirect_not_allowed")
               /\ UNCHANGED <<oauth, conns, exchanges>>
          ELSE IF cb[k].provider = "exchange_fails"
          THEN \* both except branches: delete the state, commit
               /\ exchanges' = exchanges + 1
               /\ oauth' = [oauth EXCEPT ![cb[k].state] = NoRow]
               /\ cb' = checked("token_exchange_failed")
               /\ UNCHANGED conns
          ELSE IF cb[k].provider = "lookup_fails"
          THEN /\ exchanges' = exchanges + 1
               /\ cb' = checked("account_lookup_failed")
               /\ UNCHANGED <<oauth, conns>>
          ELSE IF stored.raises
          THEN /\ exchanges' = exchanges + 1
               /\ cb' = checked("server_error")
               /\ UNCHANGED <<oauth, conns>>
          ELSE /\ exchanges' = exchanges + 1
               /\ conns' = [conns EXCEPT ![c] = stored.connection]
               /\ oauth' = [oauth EXCEPT ![cb[k].state] = NoRow]
               /\ cb' = checked("success")
       /\ UNCHANGED <<syncs, messages, req, task, del, ndel, runlog, now, remote, creq, nupd, calls, last>>

\* Time passes.
Tick ==
    /\ now < MaxNow
    /\ now' = now + 1
    /\ UNCHANGED <<syncs, conns, messages, oauth, req, task, del, ndel, cb, exchanges, runlog, remote, creq, nupd, calls, last>>

\* The state after an OAuth flow was started for user 1: a pending
\* Connection and the state token "s1", which expires after time 1.
InitOAuth ==
    /\ syncs = [s \in SyncIds |-> NoRow]
    /\ conns = [c \in ConnIds |-> PendingConnection(1)]
    /\ messages = {}
    /\ req = [r \in ReqIds |-> IdleRequest]
    /\ task = [t \in TaskIds |-> NoTaskState]
    /\ del = IdleDelete
    /\ ndel = 0
    /\ \E aware \in BOOLEAN :
          oauth = [s \in StateTokens |-> IF s = "s1" THEN OAuthRow(1, 1, aware) ELSE NoRow]
    /\ cb = [k \in CbIds |-> IdleCallback]
    /\ exchanges = 0
    /\ runlog = [s \in SyncIds |-> NoRun]
    /\ now = 0
    /\ creq = <<>>
    /\ nupd = 0
    /\ calls = <<>>
    /\ remote = QuietRemote
    /\ last = NoResponse

NextOAuth ==
    \/ \E k \in CbIds, s \in StateTokens, err \in BOOLEAN,
          prov \in ProviderOutcomes, refresh \in {"ref", Null} :
          CallbackBegin(k, s, err, prov, refresh)
    \/ \E k \in CbIds, redirect_ok \in BOOLEAN : CallbackFinish(k, redirect_ok)
    \/ Tick

SpecOAuth == InitOAuth /\ [][NextOAuth]_vars

\* ------------------------------------------------------- patching a job

\* Job 1 of the current user, pending or running; job 2 of another user, or
\* no job 2.
InitPatch ==
    /\ now = 0
    /\ \E j1 \in {NewSync(1, 1, FULL), RunningJob(1, 1)}, j2 \in {NoRow, NewSync(1, 2, FULL)} :
          syncs = [s \in SyncIds |-> IF s = 1 THEN j1 ELSE IF s = 2 THEN j2 ELSE NoRow]
    /\ conns = [c \in ConnIds |-> ActiveConnection(1)]
    /\ messages = {}
    /\ req = [r \in ReqIds |-> IdleRequest]
    /\ task = [t \in TaskIds |-> NoTaskState]
    /\ del = IdleDelete
    /\ ndel = 0
    /\ oauth = <<>>
    /\ cb = <<>>
    /\ exchanges = 0
    /\ runlog = [s \in SyncIds |-> NoRun]
    /\ remote = QuietRemote
    /\ creq = <<>>
    /\ nupd = 0
    /\ calls = <<>>
    /\ last = NoResponse

\* PATCH /syncs/{id} requests while time passes.
NextPatch ==
    \/ \E s \in SyncIds, body \in SyncUpdate : UpdateSync(s, body)
    \/ Tick

SpecPatch == InitPatch /\ [][NextPatch]_vars

\* ------------------------------------------------------- create_connection

CReqIds == 1..NumConnRequests
\* A Connection row's id is a fresh uuid4; the model names it after the
\* request that inserted it.
ConnSlots == CReqIds

\* models/oauth.py, OAuthProvider
OAuthProvider == {"gmail", "google", "slack", "outlook"}

\* The request bodies of the model (ConnectionCreate): a supported or an
\* unknown provider, with or without an account id, the required status, and
\* an access token that is absent, a plaintext or a TokenCipher ciphertext.
ConnectionCreate ==
    [user_id : UserIds,
     provider : {"gmail", "bogus"},
     provider_account_id : {Null, "acct"},
     status : {CONN_PENDING, CONN_ACTIVE},
     access_token : {Null, "tok", Encrypt("tok")},
     refresh_token : {Null},
     is_active : {Null}]

IdleCreate == [pc |-> "idle", body |-> Null, found |-> {}, prior |-> {},
               resp |-> 0, result |-> Null]

\* "a or b" on optional strings: None and "" are false.
Or(a, b) == IF a = Null \/ a = "" THEN b ELSE a

\* Mutation of MatchingConnections: the account id is compared with "=", so
\* an absent account id matches no row.
MatchingByEquality(tbl, u, p, a) ==
    IF a = Null THEN {}
    ELSE {c \in DOMAIN tbl : /\ tbl[c].exists
                             /\ tbl[c].user_id = u
                             /\ tbl[c].provider = p
                             /\ tbl[c].provider_account_id = a}

\* Lines 55-59: the rows with this user, provider and provider_account_id.
\* SQLAlchemy renders "== None" as IS NULL: an absent account id matches the
\* rows that have none.
MatchingConnections(tbl, u, p, a) ==
    {c \in DOMAIN tbl : /\ tbl[c].exists
                        /\ tbl[c].user_id = u
                        /\ tbl[c].provider = p
                        /\ tbl[c].provider_account_id = a}

\* Lines 45-61: validate the provider (400 for an unknown one), look the
\* existing connection up; scalar_one_or_none raises when several rows
\* match.  `prior` is history for the properties: the rows earlier completed
\* create_connection requests for the same tuple answered with and that
\* still carry the tuple.
CreateConnQuery(r, body) ==
    LET found == MatchingConnections(conns, body.user_id, body.provider,
                                     body.provider_account_id)
        prior == {c \in DOMAIN conns :
                    /\ conns[c].exists
                    /\ conns[c].user_id = body.user_id
                    /\ conns[c].provider = body.provider
                    /\ conns[c].provider_account_id = body.provider_account_id
                    /\ \E o \in CReqIds : /\ creq[o].pc = "done"
                                          /\ creq[o].result = "ok"
                                          /\ creq[o].resp = c}
    IN /\ creq[r].pc = "idle"
       \* requests are interchangeable: they arrive in the order of their names
       /\ \A o \in CReqIds : o < r => creq[o].pc # "idle"
       /\ creq' = [creq EXCEPT ![r] =
             IF body.provider \notin OAuthProvider
             THEN [IdleCreate EXCEPT !.pc = "done", !.result = "unsupported_provider"]
             ELSE IF Cardinality(found) > 1
             THEN [IdleCreate EXCEPT !.pc = "done", !.result = "server_error"]
             ELSE [IdleCreate EXCEPT !.pc = "queried", !.body = body,
                                     !.found = found, !.prior = prior]]
       /\ UNCHANGED <<syncs, conns, messages, oauth, req, task, del, ndel, cb,
                      exchanges, runlog, now, remote, nupd, calls, last>>

\* The id of the row request r inserts (a fresh uuid4).
NewConnectionId(r) == r

\* Lines 63-95: update the connection found (tokens only when the request
\* carries them, the status always, is_active when given) or insert a new
\* one with the request's fields; commit.
CreateConnCommit(r) ==
    LET q == creq[r]
        b == q.body
        c == IF q.found = {} THEN NewConnectionId(r) ELSE CHOOSE x \in q.found : TRUE
    IN /\ q.pc = "queried"
       /\ conns' = [conns EXCEPT ![c] =
             IF q.found = {}
             THEN [exists |-> TRUE, user_id |-> b.user_id, provider |-> b.provider,
                   status |-> b.status,
                   provider_account_id |-> b.provider_account_id,
                   access_token |-> b.access_token,
                   refresh_token |-> b.refresh_token,
                   is_active |-> IF b.is_active = Null THEN TRUE ELSE b.is_active,
                   access_token_expiry |-> NoExpiry,
                   last_history_id |-> Null, last_error |-> Null]
             ELSE [@ EXCEPT !.access_token = Or(b.access_token, @),
                            !.refresh_token = Or(b.refresh_token, @),
                            !.status = b.status,
                            !.is_active = IF b.is_active = Null THEN @ ELSE b.is_active]]
       /\ creq' = [creq EXCEPT ![r] = [IdleCreate EXCEPT !.pc = "done", !.resp = c,
                                                         !.result = "ok"]]
       /\ UNCHANGED <<syncs, messages, oauth, req, task, del, ndel, cb,
                      exchanges, runlog, now, remote, nupd, calls, last>>

\* ------------------------------------------------------- update_connection

\* The request bodies of the model (ConnectionUpdate, the fields that were
\* set): a new account id or a new access token.  ConnectionUpdate has no
\* status field and no id field.
ConnectionUpdate ==
    {[provider_account_id |-> a] : a \in {Null, "acct"}}
    \cup {[access_token |-> t] : t \in {"tok", Encrypt("tok")}}

\* Bodies that name the owner: alone, or with another field; a body without
\* fields; a body whose only field is not a column of Connection.
OwnerUpdates ==
    {[user_id |-> 2],
     [user_id |-> 2, access_token |-> Encrypt("tok")],
     [user_id |-> 2, is_active |-> FALSE],
     NoFields,
     [token_type |-> "bearer"]}

\* Mutation of ImmutableFields: nothing is removed from the body.
NoImmutableFields == {}

\* Line 127, update_data.pop("user_id", None)
ImmutableFields == {"user_id"}

\* update_connection: 404 when the row is missing; 400 when the body has no
\* field left after user_id is removed; else setattr for every remaining
\* field that is an attribute of Connection, commit.
UpdateConnection(c, body) ==
    LET update_data == DOMAIN body \ ImmutableFields
        answer(r) == [op |-> "update_connection", id |-> c, body |-> body, result |-> r]
    IN /\ nupd < NumUpdates
       /\ nupd' = nupd + 1
       /\ IF ~conns[c].exists
          THEN /\ last' = answer("not_found")
               /\ UNCHANGED conns
          ELSE IF update_data = {}
          THEN /\ last' = answer("bad_request")
               /\ UNCHANGED conns
          ELSE /\ conns' = [conns EXCEPT ![c] =
                               [f \in DOMAIN @ |-> IF f \in update_data THEN body[f]
                                                   ELSE @[f]]]
               /\ last' = answer("ok")
       /\ UNCHANGED <<syncs, messages, oauth, req, task, del, ndel, cb,
                      exchanges, runlog, now, remote, creq, calls>>

\* No connections yet.
InitConn ==
    /\ syncs = [s \in SyncIds |-> NoRow]
    /\ conns = [c \in ConnSlots |-> NoRow]
    /\ messages = {}
    /\ req = [r \in ReqIds |-> IdleRequest]
    /\ task = [t \in TaskIds |-> NoTaskState]
    /\ del = IdleDelete
    /\ ndel = 0
    /\ oauth = <<>>
    /\ cb = <<>>
    /\ exchanges = 0
    /\ runlog = [s \in SyncIds |-> NoRun]
    /\ now = 0
    /\ remote = QuietRemote
    /\ creq = [r \in CReqIds |-> IdleCreate]
    /\ nupd = 0
    /\ calls = <<>>
    /\ last = NoResponse

NextConn ==
    \/ \E r \in CReqIds, body \in ConnectionCreate : CreateConnQuery(r, body)
    \/ \E r \in CReqIds : CreateConnCommit(r)
    \/ \E c \in ConnSlots, upd \in ConnectionUpdate : UpdateConnection(c, upd)

SpecConn == InitConn /\ [][NextConn]_vars

\* ------------------------------------- refresh_connection, test_connection

\* services/gmail.py, refresh_gmail_tokens: raises HTTPException (501, not
\* implemented) for every Connection and sets nothing on it.
RefreshGmailTokens(connection) == [raises |-> "HTTPException", connection |-> connection]

\* services/gmail.py, validate_gmail_connection: raises HTTPException (501)
\* for every Connection and sets nothing on it.
ValidateGmailConnection(connection) == [raises |-> "HTTPException", connection |-> connection]

\* refresh_connection: 404 without a row, 400 for a provider other than
\* gmail; then the token refresh.  An HTTPException of the refresh: commit
\* what the refresh set on the Connection and raise it again.  Any other
\* exception: status FAILED and last_error, commit, HTTP 500.
RefreshConnection(c) ==
    LET out == RefreshGmailTokens(conns[c])
        answer(r) == [op |-> "refresh_connection", id |-> c, body |-> NoFields,
                      result |-> r]
    IN /\ IF ~conns[c].exists
          THEN /\ last' = answer("not_found")
               /\ UNCHANGED conns
          ELSE IF conns[c].provider # "gmail"
          THEN /\ last' = answer("bad_request")
               /\ UNCHANGED conns
          ELSE IF out.raises = "HTTPException"
          THEN /\ conns' = [conns EXCEPT ![c] = out.connection]
               /\ last' = answer("refresh_failed")
          ELSE IF out.raises = "Exception"
          THEN /\ conns' = [conns EXCEPT ![c] =
                               [out.connection EXCEPT !.status = CONN_FAILED,
                                                      !.last_error = "error"]]
               /\ last' = answer("server_error")
          ELSE /\ conns' = [conns EXCEPT ![c] = out.connection]
               /\ last' = answer("ok")
       /\ UNCHANGED <<syncs, messages, oauth, req, task, del, ndel, cb,
                      exchanges, runlog, now, remote, creq, nupd, calls>>

\* test_connection: 404 without a row; then the validation.  Whether it
\* returns or raises HTTPException, what it set on the Connection is
\* committed; the exception is raised again.
TestConnection(c) ==
    LET out == ValidateGmailConnection(conns[c])
        answer(r) == [op |-> "test_connection", id |-> c, body |-> NoFields,
                      result |-> r]
    IN /\ IF ~conns[c].exists
          THEN /\ last' = answer("not_found")
               /\ UNCHANGED conns
          ELSE IF out.raises = "HTTPException"
          THEN /\ conns' = [conns EXCEPT ![c] = out.connection]
               /\ last' = answer("test_failed")
          ELSE /\ conns' = [conns EXCEPT ![c] = out.connection]
               /\ last' = answer("ok")
       /\ UNCHANGED <<syncs, messages, oauth, req, task, del, ndel, cb,
                      exchanges, runlog, now, remote, creq, nupd, calls>>

\* The Connection rows create_connection and the callback leave behind: a
\* provider of the enum, any status, tokens stored or not.
StoredConnections ==
    {[ActiveConnection(u) EXCEPT !.provider = p, !.status = st] :
        u \in UserIds, p \in {"gmail", "slack"}, st \in {CONN_ACTIVE, CONN_EXPIRED}}
    \cup {PendingConnection(u) : u \in UserIds}

\* Any table of stored connections.
InitConnOps ==
    /\ syncs = [s \in SyncIds |-> NoRow]
    /\ conns \in [ConnSlots -> StoredConnections \cup {NoRow}]
    /\ messages = {}
    /\ req = [r \in ReqIds |-> IdleRequest]
    /\ task = [t \in TaskIds |-> NoTaskState]
    /\ del = IdleDelete
    /\ ndel = 0
    /\ oauth = <<>>
    /\ cb = <<>>
    /\ exchanges = 0
    /\ runlog = [s \in SyncIds |-> NoRun]
    /\ now = 0
    /\ remote = QuietRemote
    /\ creq = <<>>
    /\ nupd = 0
    /\ calls = <<>>
    /\ last = NoResponse

\* The one-step requests on a Connection.
NextConnOps ==
    \/ \E c \in ConnSlots : RefreshConnection(c)
    \/ \E c \in ConnSlots : TestConnection(c)
    \/ \E c \in ConnSlots, body \in ConnectionUpdate \cup OwnerUpdates :
          UpdateConnection(c, body)

SpecConnOps == InitConnOps /\ [][NextConnOps]_vars

\* ------------------------------------------------------------ batch commits

\* A mailbox large enough for the ingest loop to commit a full batch and
\* start the next one.
LargeRemote ==
    [QuietRemote EXCEPT !.listing = [i \in 1..(BatchSize + NumRemote) |-> i]]

InitBatch ==
    /\ syncs = [s \in SyncIds |-> NoRow]
    /\ conns = [c \in ConnIds |-> ActiveConnection(1)]
    /\ messages = {}
    /\ req = [r \in ReqIds |-> IdleRequest]
    /\ task = [t \in TaskIds |-> NoTaskState]
    /\ del = IdleDelete
    /\ ndel = 0
    /\ oauth = <<>>
    /\ cb = <<>>
    /\ exchanges = 0
    /\ runlog = [s \in SyncIds |-> NoRun]
    /\ now = 0
    /\ remote = LargeRemote
    /\ creq = <<>>
    /\ nupd = 0
    /\ calls = <<>>
    /\ last = NoResponse

\* One create_sync request and its background task over the large mailbox.
SpecBatch == InitBatch /\ [][NextIncr]_vars

\* ------------------------------------------------------ TokenCipher calls

\* What encrypt is called with: a token text, nothing, the empty string.
EncryptInputs == Plaintexts \cup {Null, ""}

\* What decrypt is called with: nothing, the empty string, a token of this
\* key, a token of another key, a token with a changed byte, a plain text.
DecryptInputs ==
    {Null, ""} \cup {Encrypt(p) : p \in Plaintexts}
    \cup {"otherkey:tok", "fernet:tok~", "tok"}

\* token_cipher.encrypt(x)
EncryptCall(x) ==
    /\ Len(calls) < MaxCalls
    /\ calls' = Append(calls, [op |-> "encrypt", arg |-> x, out |-> Encrypt(x)])
    /\ UNCHANGED <<syncs, conns, messages, oauth, req, task, del, ndel, cb,
                   exchanges, runlog, now, remote, creq, nupd, last>>

\* token_cipher.decrypt(c)
DecryptCall(c) ==
    /\ Len(calls) < MaxCalls
    /\ calls' = Append(calls, [op |-> "decrypt", arg |-> c, out |-> Decrypt(c)])
    /\ UNCHANGED <<syncs, conns, messages, oauth, req, task, del, ndel, cb,
                   exchanges, runlog, now, remote, creq, nupd, last>>

\* Lines 96-98 applied to a pending Connection and to credentials with or
\* without a refresh token: the two encrypt calls and the fields they fill.
StoreCredentialsCall(c, refresh_token) ==
    LET stored == StoreCredentials(conns[c], "acct", "tok", refresh_token)
    IN /\ Len(calls) + 2 <= MaxCalls
       /\ calls' = calls \o <<[op |-> "encrypt", arg |-> Str("tok"),
                               out |-> Encrypt(Str("tok"))],
                              [op |-> "encrypt", arg |-> Str(refresh_token),
                               out |-> Encrypt(Str(refresh_token))]>>
       /\ conns' = [conns EXCEPT ![c] = stored.connection]
       /\ UNCHANGED <<syncs, messages, oauth, req, task, del, ndel, cb,
                      exchanges, runlog, now, remote, creq, nupd, last>>

InitCipher ==
    /\ syncs = [s \in SyncIds |-> NoRow]
    /\ conns = [c \in ConnIds |-> PendingConnection(1)]
    /\ messages = {}
    /\ req = [r \in ReqIds |-> IdleRequest]
    /\ task = [t \in TaskIds |-> NoTaskState]
    /\ del = IdleDelete
    /\ ndel = 0
    /\ oauth = <<>>
    /\ cb = <<>>
    /\ exchanges = 0
    /\ runlog = [s \in SyncIds |-> NoRun]
    /\ now = 0
    /\ remote = QuietRemote
    /\ creq = <<>>
    /\ nupd = 0
    /\ calls = <<>>
    /\ last = NoResponse

NextCipher ==
    \/ \E x \in EncryptInputs : EncryptCall(x)
    \/ \E c \in DecryptInputs : DecryptCall(c)
    \/ \E c \in ConnIds, refresh_token \in {"ref", Null} :
          StoreCredentialsCall(c, refresh_token)

SpecCipher == InitCipher /\ [][NextCipher]_vars


\* ================================================================ claims

Ended_pcs == {"returned", "raised"}
InFlightOf(c) ==
    {s \in SyncIds : /\ syncs[s].exists
                     /\ syncs[s].connection_id = c
                     /\ syncs[s].status \in InFlight}

\* C1 (as claimed): under any interleaving of create_sync requests and
\* worker runs, each connection has at most one Sync row in {pending,
\* running}; two simultaneous requests then answer with the same job id.
C1_OneInFlightPerConnection ==
    /\ \A c \in ConnIds : Cardinality(InFlightOf(c)) <= 1
    /\ \A r1, r2 \in ReqIds :
         (req[r1].pc = "done" /\ req[r2].pc = "done"
            /\ (req[r1].resp \cup req[r2].resp) \subseteq InFlightOf(1))
         => req[r1].resp = req[r2].resp

\* C6 (as claimed): once a Sync's persisted status is completed, failed or
\* cancelled, no step of create_sync, process_sync_job or delete_sync changes
\* it to another status.
C6_TerminalIsFinal ==
    [][\A s \in SyncIds :
         (syncs[s].exists /\ syncs[s].status \in Terminal /\ syncs'[s].exists)
         => syncs'[s].status = syncs[s].status]_vars

\* C7 (as claimed): when a run of process_sync_job ends, by returning or by
\* an exception leaving it, the job it ran is not left in status running.
C7_NeverLeftRunning ==
    [][\A t \in TaskIds :
         (task[t].pc \in {"running", "ingest"} /\ task'[t].pc \in Ended_pcs)
         => ~(syncs'[t[2]].exists /\ syncs'[t[2]].status = RUNNING)]_vars

\* C8: delete_sync on a job it loaded as running sets status cancelled,
\* stamps time_end and keeps the row; on a job it loaded as pending,
\* completed, failed or cancelled it removes the row.
C8_CancelOrDelete ==
    [][(del.pc = "read" /\ del'.pc = "idle")
       => IF del.status = RUNNING
          THEN /\ syncs'[del.id].exists
               /\ syncs'[del.id].status = CANCELLED
               /\ syncs'[del.id].time_end
          ELSE ~syncs'[del.id].exists]_vars

\* C8 witness: delete_sync has cancelled a running job, which is still there
\* with time_end stamped.
C8_Witness ==
    /\ del.pc = "idle"
    /\ ndel >= 1
    /\ \E s \in SyncIds : /\ syncs[s].exists
                          /\ syncs[s].status = CANCELLED
                          /\ syncs[s].time_end

\* C9: no two Message rows share (user_id, external_id), whatever the
\* interleaving of the sync runs.
C9_UniqueMessages ==
    \A m1, m2 \in messages :
        (m1.user_id = m2.user_id /\ m1.external_id = m2.external_id) => m1 = m2

\* C9 witness: a re-sync found every remote message mirrored and updated the
\* rows instead of inserting.
C9_Witness ==
    \E s \in SyncIds : /\ syncs[s].exists
                       /\ syncs[s].status = COMPLETED
                       /\ syncs[s].messages_updated = NumRemote
                       /\ Cardinality(messages) = NumRemote

\* C10: a full sync that completes after an earlier full sync completed
\* (same remote content) reports the same messages_synced, messages_new = 0
\* and messages_updated = messages_synced, and the mirrored keys are those
\* that were there when it started.
C10_SecondRunIdempotent ==
    \A s \in SyncIds :
        (/\ syncs[s].exists
         /\ syncs[s].status = COMPLETED
         /\ syncs[s].sync_type = FULL
         /\ runlog[s].prior # {})
        => /\ \A n \in runlog[s].prior : syncs[s].messages_synced = n
           /\ syncs[s].messages_new = 0
           /\ syncs[s].messages_updated = syncs[s].messages_synced
           /\ MessageKeys = runlog[s].keys

\* C10 witness: a second full sync has completed after a first one.
C10_Witness ==
    \E s \in SyncIds : /\ syncs[s].exists
                       /\ syncs[s].status = COMPLETED
                       /\ syncs[s].sync_type = FULL
                       /\ runlog[s].prior # {}
                       /\ syncs[s].messages_synced = NumRemote

\* C2 (as claimed): every callback for a state token that is in the store
\* has deleted that row when it returns, whatever the outcome.
C2_StateAlwaysDeleted ==
    [][\A k \in CbIds :
         (cb[k].pc # "done" /\ cb'[k].pc = "done")
         => ~oauth'[cb'[k].state].exists]_vars

\* C3 (as claimed): a callback that arrives after another callback for the
\* same state was processed fails with the invalid-state error.
C3_SecondCallbackInvalid ==
    \A k \in CbIds :
        (cb[k].pc = "done" /\ cb[k].second /\ cb[k].result # "authorization_denied")
        => cb[k].result = "invalid_state"

C5_CallbackActivates ==
    \A k \in CbIds :
        (/\ cb[k].pc = "done"
         /\ cb[k].provider = "ok"
         /\ cb[k].result \notin {"authorization_denied", "invalid_state", "state_expired",
                                 "connection_not_found", "redirect_not_allowed"})
        => /\ cb[k].result = "success"
           /\ conns[1].status = CONN_ACTIVE
           /\ conns[1].is_active
           /\ conns[1].provider_account_id # Null
           /\ conns[1].access_token = Encrypt("tok")
           /\ conns[1].access_token # "tok"

\* C11 (as claimed): a run that completes as an incremental sync from a
\* stored cursor leaves, on the job and on the Connection, the cursor the
\* last page of the history listing reported.
C11_CursorFromLastPage ==
    [][\A t \in TaskIds :
         (/\ task[t].pc = "ingest"
          /\ task'[t].pc = "returned"
          /\ task[t].sync_type # FULL
          /\ task[t].cursor # Null
          /\ syncs'[t[2]].exists
          /\ syncs'[t[2]].status = COMPLETED)
         => /\ syncs'[t[2]].last_history_id = remote.pages[Len(remote.pages)].historyId
            /\ conns'[syncs'[t[2]].connection_id].last_history_id
                 = remote.pages[Len(remote.pages)].historyId]_vars

\* C12: the step that persists status completed on a job also persists that
\* run's cursor on the job and on its Connection: the three writes are one
\* commit.
C12_CompletionAtomicWithCursor ==
    [][\A t \in TaskIds :
         (/\ task[t].pc = "ingest"
          /\ syncs'[t[2]].exists
          /\ syncs'[t[2]].status = COMPLETED
          /\ ~(syncs[t[2]].exists /\ syncs[t[2]].status = COMPLETED)
          /\ task'[t].pc = "returned")
         => /\ syncs'[t[2]].last_history_id = task[t].new_history_id
            /\ conns'[syncs'[t[2]].connection_id].last_history_id
                 = task[t].new_history_id]_vars

\* C12 witness: a full sync has completed; the job and the Connection carry
\* the cursor the run fetched, which the Connection did not hold before.
C12_Witness ==
    \E s \in SyncIds : /\ syncs[s].exists
                       /\ syncs[s].status = COMPLETED
                       /\ syncs[s].last_history_id = RemoteHistoryId
                       /\ conns[syncs[s].connection_id].last_history_id = RemoteHistoryId

\* C13 (as claimed): no two active Connections share (user_id, provider,
\* provider_account_id).
C13_OneActivePerAccount ==
    \A c1, c2 \in DOMAIN conns :
        (/\ conns[c1].exists /\ conns[c2].exists
         /\ conns[c1].status = CONN_ACTIVE /\ conns[c2].status = CONN_ACTIVE
         /\ conns[c1].user_id = conns[c2].user_id
         /\ conns[c1].provider = conns[c2].provider
         /\ conns[c1].provider_account_id = conns[c2].provider_account_id)
        => c1 = c2

\* C14: a create_connection that begins after an earlier create_connection
\* for the same (user_id, provider, provider_account_id) completed, while
\* the row of that call still carries the tuple, inserts nothing: the set of
\* Connection rows is unchanged and the response names the earlier row.
C14_SecondCreateUpdates ==
    [][\A r \in DOMAIN creq :
         (/\ creq[r].pc = "queried"
          /\ creq'[r].pc = "done"
          /\ creq[r].prior # {})
         => /\ {c \in DOMAIN conns : conns'[c].exists}
                 = {c \in DOMAIN conns : conns[c].exists}
            /\ creq'[r].resp \in creq[r].prior]_vars

\* C14 witness: two create_connection requests for the same tuple without
\* an account id ran one after the other and both answered with the one row
\* there is.
C14_Witness ==
    /\ DOMAIN creq = CReqIds
    /\ \A r \in CReqIds : /\ creq[r].pc = "done"
                          /\ creq[r].result = "ok"
                          /\ creq[r].resp = 1
    /\ conns[1].exists
    /\ conns[1].provider_account_id = Null
    /\ Cardinality({c \in DOMAIN conns : conns[c].exists}) = 1

\* C15 (as claimed): a Connection's status becomes active only in the step
\* of a google_oauth_callback that returns success.
C15_ActiveOnlyByCallback ==
    [][\A c \in DOMAIN conns :
         (/\ conns'[c].exists
          /\ conns'[c].status = CONN_ACTIVE
          /\ ~(conns[c].exists /\ conns[c].status = CONN_ACTIVE))
         => \E k \in DOMAIN cb : /\ cb[k].pc = "loaded"
                                 /\ cb'[k].pc = "done"
                                 /\ cb'[k].result = "success"]_vars

\* C16 (as claimed): every token stored on a Connection is a ciphertext of
\* TokenCipher: it decrypts with the process key.
C16_TokensAreCiphertexts ==
    \A c \in DOMAIN conns :
        conns[c].exists
        => /\ conns[c].access_token # Null
                => Decrypt(conns[c].access_token) # "InvalidToken"
           /\ conns[c].refresh_token # Null
                => Decrypt(conns[c].refresh_token) # "InvalidToken"

\* C17: for every call made, encrypt fails for an absent or empty value and
\* otherwise returns a text, different from its argument, that decrypt turns
\* back into the argument; decrypt returns null for a null or empty
\* ciphertext, the plaintext for a token of encrypt, and fails with
\* InvalidToken for any other text.
C17_CipherRoundTrip ==
    \A i \in 1..Len(calls) :
        LET call == calls[i]
        IN IF call.op = "encrypt"
           THEN IF call.arg \in {Null, ""}
                THEN call.out = "ValueError"
                ELSE /\ call.out \notin {"ValueError", call.arg}
                     /\ Decrypt(call.out) = call.arg
           ELSE IF call.arg \in {Null, ""}
                THEN call.out = Null
                ELSE IF \E p \in Plaintexts : call.arg = Encrypt(p)
                THEN \A p \in Plaintexts : call.arg = Encrypt(p) => call.out = p
                ELSE call.out = "InvalidToken"

\* C17 witness: a token was encrypted and the result decrypted back to it.
C17_Witness ==
    /\ Len(calls) = 2
    /\ calls[1] = [op |-> "encrypt", arg |-> "tok", out |-> Encrypt("tok")]
    /\ calls[2].op = "decrypt"
    /\ calls[2].arg = calls[1].out
    /\ calls[2].out = "tok"

\* C18 (as claimed): a callback without the provider's error parameter that
\* finds its state row with expires_at in the past answers state-expired,
\* removes the row, attempts no token exchange and changes no Connection.
C18_ExpiredStateRemoved ==
    [][\A k \in DOMAIN cb :
         (/\ cb[k].pc = "idle"
          /\ cb'[k].pc # "idle"
          /\ cb'[k].result # "authorization_denied"
          /\ oauth[cb'[k].state].exists
          /\ oauth[cb'[k].state].expires_at < now)
         => /\ cb'[k].result = "state_expired"
            /\ ~oauth'[cb'[k].state].exists
            /\ exchanges' = exchanges
            /\ conns' = conns]_vars

\* The step in which a run of process_sync_job ends on an exception.
RunFails(t) ==
    /\ task[t].pc \in {"running", "ingest"}
    /\ \/ task'[t].pc = "raised"
       \/ /\ task'[t].pc = "returned"
          /\ ~(syncs'[t[2]].exists /\ syncs'[t[2]].status = COMPLETED)

\* C19 (as claimed): a run that ends on an exception leaves its job failed,
\* with an error message, time_end stamped and retry_count one above what the
\* run loaded.
C19_ExceptionMarksFailed ==
    [][\A t \in TaskIds :
         (RunFails(t) /\ syncs[t[2]].exists)
         => /\ syncs'[t[2]].exists
            /\ syncs'[t[2]].status = FAILED
            /\ syncs'[t[2]].error_message # Null
            /\ syncs'[t[2]].time_end
            /\ syncs'[t[2]].retry_count = task[t].retry_count + 1]_vars

\* C20 (as claimed): when a run fails, its job is not recorded as completed,
\* and every Message row that was committed before the failure is still
\* committed after it.
C20_FailureKeepsCommittedBatches ==
    [][\A t \in TaskIds :
         RunFails(t)
         => /\ syncs'[t[2]].exists => syncs'[t[2]].status # COMPLETED
            /\ \A m \in messages :
                  ~m.fresh => \E n \in messages' : /\ n.rid = m.rid
                                                   /\ n.user_id = m.user_id
                                                   /\ n.external_id = m.external_id
                                                   /\ ~n.fresh]_vars

\* C21 (as claimed): when the token operation of refresh_connection or
\* test_connection fails, the Connection is persisted with status failed and
\* a last_error before the error is returned.
C21_FailurePersisted ==
    [][(/\ last' # last
        /\ last'.result \in {"refresh_failed", "test_failed", "server_error"})
       => /\ conns'[last'.id].status = CONN_FAILED
          /\ conns'[last'.id].last_error # Null]_vars

\* C22: a create_sync whose query ran while a pending or running job existed
\* on a connection inserts no Sync row for that connection, and its response
\* contains that job's id.
C22_ExistingJobReused ==
    [][\A r \in ReqIds :
         (req[r].pc = "queried" /\ req'[r].pc = "done")
         => \A h \in req[r].held :
               /\ h.sync \in req'[r].resp
               /\ \A s \in SyncIds :
                     (syncs'[s].exists /\ syncs'[s].connection_id = h.conn)
                     => syncs[s].exists]_vars

\* C22 witness: the second request ran after the first had committed its
\* job; it answered with that job and inserted none.
C22_Witness ==
    /\ req[1].pc = "done"
    /\ req[2].pc = "done"
    /\ req[1].resp = {1}
    /\ req[2].resp = {1}
    /\ ~syncs[2].exists

\* C23: the jobs a create_sync of user u answers with are on exactly the
\* connections of u that are active; the rows it inserts are pending, owned
\* by u and on those connections, one each at most; it changes no other row.
C23_JobsForActiveConnections ==
    [][(req[1].pc = "queried" /\ req'[1].pc = "done")
       => LET u == req[1].user_id
              active == {c \in DOMAIN conns : /\ conns[c].exists
                                              /\ conns[c].user_id = u
                                              /\ conns[c].status = CONN_ACTIVE}
              inserted == {s \in DOMAIN syncs : syncs'[s].exists /\ ~syncs[s].exists}
          IN /\ \A s \in req'[1].resp : syncs'[s].exists
             /\ {syncs'[s].connection_id : s \in req'[1].resp} = active
             /\ inserted \subseteq req'[1].resp
             /\ \A s \in inserted : /\ syncs'[s].status = PENDING
                                    /\ syncs'[s].user_id = u
                                    /\ syncs'[s].sync_type = req[1].sync_type
             /\ \A s1, s2 \in inserted :
                   syncs'[s1].connection_id = syncs'[s2].connection_id => s1 = s2
             /\ \A s \in DOMAIN syncs : syncs[s].exists => syncs'[s] = syncs[s]]_vars

\* C23 witness: a request answered with the running job it reused on one
\* connection and with a job it created on another, while a connection that
\* is not active or not the user's got none.
C23_Witness ==
    /\ req[1].pc = "done"
    /\ EarlierJob \in req[1].resp
    /\ Cardinality(req[1].resp) >= 2
    /\ \E c \in DOMAIN conns :
          /\ conns[c].status = CONN_ACTIVE
          /\ \E s \in req[1].resp : syncs[s].connection_id = c /\ syncs[s].status = PENDING
    /\ Cardinality(DOMAIN conns) > 2
         => \E c \in DOMAIN conns : \A s \in DOMAIN syncs :
                syncs[s].exists => syncs[s].connection_id # c

C25_RunningNeverRemoved ==
    [][(/\ del.pc = "read"
        /\ del'.pc = "idle"
        /\ syncs[del.id].exists
        /\ syncs[del.id].status = RUNNING)
       => /\ syncs'[del.id].exists
          /\ syncs'[del.id].status = CANCELLED]_vars

\* C26 (as claimed): a run whose Connection object carries an expired access
\* token and no refresh token ends, when it materialises the credentials,
\* with the job failed and the Connection marked failed or expired.
C26_MissingRefreshMarksConnection ==
    [][\A t \in TaskIds :
         (/\ task[t].pc = "running"
          /\ task'[t].pc # "running"
          /\ CredsExpired(task[t].conn, now)
          /\ task[t].conn.refresh_token = Null)
         => /\ syncs'[t[2]].exists
            /\ syncs'[t[2]].status = FAILED
            /\ conns'[syncs'[t[2]].connection_id].status \in {CONN_FAILED, CONN_EXPIRED}]_vars

\* C27 (as claimed): a run that refreshed the access token while
\* materialising the credentials and completes leaves the refreshed token,
\* encrypted, on the Connection.
C27_RefreshedTokenPersisted ==
    [][\A t \in TaskIds :
         (/\ task[t].pc = "ingest"
          /\ task[t].creds.refreshed
          /\ task'[t].pc = "returned"
          /\ syncs'[t[2]].exists
          /\ syncs'[t[2]].status = COMPLETED)
         => conns'[syncs'[t[2]].connection_id].access_token
              = Encrypt(task[t].creds.token)]_vars

\* The sum of messages_new over the completed jobs among S of a syncs table.
RECURSIVE CountedNew(_, _)
CountedNew(tbl, S) ==
    IF S = {} THEN 0
    ELSE LET s == CHOOSE x \in S : TRUE
         IN (IF tbl[s].exists /\ tbl[s].status = COMPLETED THEN tbl[s].messages_new ELSE 0)
            + CountedNew(tbl, S \ {s})

C29_OnlyProvidedFields ==
    [][(last' # last /\ last'.op = "update_sync")
       => LET s == last'.id
              body == last'.body
          IN /\ \A o \in DOMAIN syncs : o # s => syncs'[o] = syncs[o]
             /\ (~syncs[s].exists \/ syncs[s].user_id # CurrentUser)
                  => (last'.result = "not_found" /\ syncs' = syncs)
             /\ last'.result # "ok" => syncs' = syncs
             /\ last'.result = "ok"
                  => /\ syncs'[s].exists
                     /\ \A f \in DOMAIN syncs[s] :
                           syncs'[s][f] = IF f \in DOMAIN body THEN body[f]
                                          ELSE IF f = "updated_at" THEN now
                                          ELSE syncs[s][f]]_vars

\* C29 witness: a body with counters only was applied to the current user's
\* job at a later time: the counters and updated_at changed, the status and
\* the owner did not.
C29_Witness ==
    /\ last.op = "update_sync"
    /\ last.result = "ok"
    /\ last.body = [messages_synced |-> 2, messages_new |-> 1, messages_updated |-> 1]
    /\ syncs[last.id].messages_new = 1
    /\ syncs[last.id].updated_at = now
    /\ now > 0
    /\ syncs[last.id].status = PENDING
    /\ syncs[last.id].user_id = CurrentUser

\* C30: an update_connection leaves the owner of every Connection and the
\* set of Connection ids as they were, whatever the body; a body with no
\* field other than user_id is answered with a client error and no
\* Connection changes.
C30_OwnerAndIdImmutable ==
    [][(last' # last /\ last'.op = "update_connection")
       => /\ \A c \in DOMAIN conns :
                /\ conns'[c].exists = conns[c].exists
                /\ conns[c].exists => conns'[c].user_id = conns[c].user_id
                /\ c # last'.id => conns'[c] = conns[c]
          /\ (conns[last'.id].exists /\ DOMAIN last'.body \subseteq {"user_id"})
               => /\ last'.result = "bad_request"
                  /\ conns' = conns]_vars

\* C30 witness: a body naming another owner and a new token was applied:
\* the token changed, the owner did not.
C30_Witness ==
    /\ last.op = "update_connection"
    /\ last.result = "ok"
    /\ last.body = [user_id |-> 2, access_token |-> Encrypt("tok")]
    /\ conns[last.id].user_id = 1
    /\ conns[last.id].access_token = Encrypt("tok")
    /\ conns[last.id].status = CONN_PENDING

\* C31: every Sync job is handed to at most one process_sync_job run: a
\* create_sync request that reuses a job that is already there schedules
\* no task for it.
C31_AtMostOneRun ==
    \A s \in SyncIds :
        Cardinality({t \in DOMAIN task : t[2] = s /\ task[t].pc # "none"}) <= 1

C33_ListingBySyncType ==
    \A t \in DOMAIN task :
        task[t].pc = "ingest"
            => /\ task[t].api = "messages.list"
                    <=> (task[t].sync_type = FULL \/ task[t].cursor \in {Null, ""})
               /\ task[t].api = "history.list"
                    <=> (task[t].sync_type = INCREMENTAL /\ task[t].cursor \notin {Null, ""})

\* C33 (amended): a run lists the whole mailbox exactly when its sync_type
\* is full or its cursor is missing, and reads the history exactly when its
\* sync_type is incremental or manual and it has a cursor.
C33_ListingUnlessFull ==
    \A t \in DOMAIN task :
        task[t].pc = "ingest"
            => /\ task[t].api = "messages.list"
                    <=> (task[t].sync_type = FULL \/ task[t].cursor \in {Null, ""})
               /\ task[t].api = "history.list"
                    <=> (/\ task[t].sync_type \in {INCREMENTAL, MANUAL}
                         /\ task[t].cursor \notin {Null, ""})

\* C33 witness: a manual sync with a cursor has read the history.
C33_Witness ==
    \E t \in DOMAIN task :
        /\ task[t].pc = "ingest"
        /\ task[t].sync_type = MANUAL
        /\ task[t].cursor = StoredHistoryId
        /\ task[t].api = "history.list"

\* The ids of the pages a sequence of listing requests returned, in order.
RECURSIVE PagesListed(_)
PagesListed(requests) ==
    IF requests = <<>> THEN <<>>
    ELSE ListPage(Head(requests).pageToken).messages \o PagesListed(Tail(requests))

\* C34: a full sync requests the first page, then the page of every
\* next-page token it is given, and stops at the first page without one; its
\* messages are the ids of all those pages, which is the whole listing; the
\* request for the account's cursor is the last one it makes, and the cursor
\* it returns is the account's.
C34_FullListingExhausted ==
    \A t \in DOMAIN task :
        (task[t].pc = "ingest" /\ task[t].api = "messages.list")
            => LET rq == task[t].requests
                   n == Len(rq)
               IN /\ n >= 2
                  /\ rq[n].api = "getProfile"
                  /\ \A i \in 1..(n - 1) : rq[i].api = "messages.list"
                  /\ rq[1].pageToken = NoPageToken
                  /\ \A i \in 1..(n - 2) :
                        /\ ListPage(rq[i].pageToken).nextPageToken # NoPageToken
                        /\ rq[i + 1].pageToken = ListPage(rq[i].pageToken).nextPageToken
                  /\ ListPage(rq[n - 1].pageToken).nextPageToken = NoPageToken
                  /\ task[t].msgs = PagesListed(SubSeq(rq, 1, n - 1))
                  /\ task[t].msgs = remote.listing
                  /\ task[t].new_history_id = RemoteHistoryId

\* C34 witness: a full sync went through three pages and holds all their ids.
C34_Witness ==
    \E t \in DOMAIN task :
        /\ task[t].pc = "ingest"
        /\ task[t].api = "messages.list"
        /\ Len(task[t].requests) = 4
        /\ Len(task[t].msgs) = 3

\* C35: the persisted progress_percentage of a started job is an integer in
\* 0..100; it is 0 in the commit that makes the job running and 100 in the
\* commit that completes it; while a run of the job is in progress it never
\* decreases; and a pass of the loop that is not a multiple of BatchSize
\* leaves it as it was.
C35_ProgressMonotone ==
    [][\A s \in SyncIds :
          (syncs[s].exists /\ syncs'[s].exists /\ syncs'[s].time_start)
            => /\ syncs'[s].progress_percentage \in 0..100
               /\ (syncs[s].status # RUNNING /\ syncs'[s].status = RUNNING)
                     => syncs'[s].progress_percentage = 0
               /\ (syncs[s].status # COMPLETED /\ syncs'[s].status = COMPLETED)
                     => syncs'[s].progress_percentage = 100
               /\ (\E t \in DOMAIN task : t[2] = s /\ task[t].pc \in {"running", "ingest"})
                     => syncs'[s].progress_percentage >= syncs[s].progress_percentage
               /\ \A t \in DOMAIN task :
                     (/\ t[2] = s
                      /\ task'[t].processed = task[t].processed + 1
                      /\ task'[t].processed % BatchSize # 0)
                        => syncs'[s].progress_percentage = syncs[s].progress_percentage]_vars

C39_EveryJobEnds ==
    \A s \in SyncIds :
        (syncs[s].exists /\ syncs[s].status \in InFlight)
            ~> (~syncs[s].exists \/ syncs[s].status \in Terminal)

====
